---- MODULE Spec2Model ----
(***************************************************************************)
(* Model of the tagged-file subsystem of ValSimP                           *)
(* (src/src/valsimp/files/taggedfile.py): the string converters, the       *)
(* TaggedEntry constructor, the TaggedCollection and the TaggedReader;     *)
(* and of SimpleCalculator (src/src/valsimp/calculator.py).                *)
(*                                                                         *)
(* Text is modelled structurally.  A string handed to str.split() is the   *)
(* sequence of its whitespace separated tokens.  A line of a stream is a   *)
(* record: `at` says whether the line starts with '@'; for such a line     *)
(* name, dtype, rank and shape are its ':' separated fields (rank as its   *)
(* sequence of decimal digits, shape as its comma separated numbers, the   *)
(* empty sequence being the empty field); for any other line toks are its  *)
(* tokens.  The empty string (readline() at end of file) is the empty      *)
(* sequence of lines.                                                      *)
(***************************************************************************)
EXTENDS Integers, Sequences, FiniteSets, TLC

\* ------------------------------------------------------------------ bounds
\* longest stream (in lines) given to a TaggedReader
MaxLines == 4
\* most entries ever extended into one TaggedCollection
MaxExtended == 4
\* largest rank, and longest shape list, of a tagline given to TaggedEntry
MaxRank == 2
\* largest number in a shape list
MaxDim == 2
\* most tokens in the data given to TaggedEntry
MaxTokens == 4

\* ------------------------------------------------------------ sequences
RECURSIVE Flatten(_)
Flatten(lines) ==
    IF lines = <<>> THEN <<>> ELSE Head(lines) \o Flatten(Tail(lines))

RECURSIVE Product(_)
Product(shape) ==
    IF shape = <<>> THEN 1 ELSE Head(shape) * Product(Tail(shape))

SeqsUpTo(S, n) == UNION {[1..k -> S] : k \in 0..n}

\* ------------------------------------------------------------- literals
\* tokens int() accepts, with their values
IntLiteral == [t \in {"1"} |-> 1]
\* tokens float() accepts, with their values in tenths
FloatLiteral == [t \in {"1", "2.5"} |-> IF t = "1" THEN 10 ELSE 25]

\* a decoded value: t is the numpy dtype, re/im the value (a bool is 1 or 0)
Value(t, re, im) == [t |-> t, re |-> re, im |-> im]

\* --------------------------------------------------------------- results
\* what a call produced: a value or the exception it raised
Raise(kind, msg) == [kind |-> kind, msg |-> msg, vals |-> <<>>, single |-> FALSE]
Return(vals, single) == [kind |-> "ok", msg |-> "", vals |-> vals, single |-> single]

\* ------------------------------------------------------------ converters
\* the argument of a converter call: a list of strings or one string
StrList(lines) == [islist |-> TRUE, val |-> lines]
Str(tokens) == [islist |-> FALSE, val |-> tokens]

\* Converter.__call__, lines 94-99: the tokens of the argument
Split(strvalue) ==
    IF strvalue.islist THEN Flatten(strvalue.val) ELSE strvalue.val

FloatConverter_convert(values) ==
    IF \A i \in 1..Len(values) : values[i] \in DOMAIN FloatLiteral
    THEN Return([i \in 1..Len(values) |-> Value("float", FloatLiteral[values[i]], 0)], FALSE)
    ELSE Raise("ConversionError", "Unable to convert string to float")

IntConverter_convert(values) ==
    IF \A i \in 1..Len(values) : values[i] \in DOMAIN IntLiteral
    THEN Return([i \in 1..Len(values) |-> Value("int", IntLiteral[values[i]], 0)], FALSE)
    ELSE Raise("ConversionError", "Unable to convert string to integer")

\* tmp[0::2] + 1.0j * tmp[1::2]; called with an even number of values only
ComplexConverter_convert(values) ==
    IF \A i \in 1..Len(values) : values[i] \in DOMAIN FloatLiteral
    THEN Return([j \in 1..(Len(values) \div 2) |->
                    Value("complex", FloatLiteral[values[2*j - 1]],
                                     FloatLiteral[values[2*j]])], FALSE)
    ELSE Raise("ConversionError", "Unable to convert string to complex")

LogicalConverter_convert(values) ==
    IF \A i \in 1..Len(values) : values[i] \in {"T", "t", "F", "f"}
    THEN Return([i \in 1..Len(values) |->
                    Value("bool", IF values[i] \in {"T", "t"} THEN 1 ELSE 0, 0)], FALSE)
    ELSE Raise("ConversionError", "Unable to convert to logical")

Convert(kind, values) ==
    CASE kind = "integer" -> IntConverter_convert(values)
      [] kind = "real"    -> FloatConverter_convert(values)
      [] kind = "complex" -> ComplexConverter_convert(values)
      [] kind = "logical" -> LogicalConverter_convert(values)

\* result[0] / result of a converter call
Result(result, nolist) ==
    IF result.kind # "ok" THEN result
    ELSE IF ~nolist THEN result
    ELSE IF result.vals = <<>> THEN Raise("IndexError", "index 0 is out of bounds")
    ELSE Return(<<result.vals[1]>>, TRUE)

\* Converter.__call__ of the integer, real and logical converters
Converter_call(kind, nolist, strvalue) ==
    LET values == Split(strvalue) IN
    IF nolist /\ Len(values) > 1 THEN Raise("ConversionError", "Too many values")
    ELSE Result(Convert(kind, values), nolist)

\* ComplexConverter.__call__: strvalue.split() exists for a string only
ComplexConverter_call(nolist, strvalue) ==
    IF strvalue.islist
    THEN Raise("AttributeError", "'list' object has no attribute 'split'")
    ELSE LET values == strvalue.val IN
         IF Len(values) % 2 # 0
         THEN Raise("ConversionError", "Complex converter needs even strings")
         ELSE IF nolist /\ Len(values) # 2
         THEN Raise("ConversionError", "Too many values")
         ELSE Result(ComplexConverter_convert(values), nolist)

\* TaggedEntry._CONVERTERS: the four converters, all created with nolist=False
CONVERTERS == {"integer", "real", "complex", "logical"}

CallConverter(dtype, strvalue) ==
    IF dtype = "complex" THEN ComplexConverter_call(FALSE, strvalue)
    ELSE Converter_call(dtype, FALSE, strvalue)

\* ----------------------------------------------------------------- lines
\* a line starting with '@', split at its ':' separators
Tag(name, dtype, rank, shape) ==
    [at |-> TRUE, name |-> name, dtype |-> dtype, rank |-> rank,
     shape |-> shape, toks |-> <<>>]
\* any other line, as its whitespace separated tokens
Data(toks) ==
    [at |-> FALSE, name |-> "", dtype |-> "", rank |-> <<>>,
     shape |-> <<>>, toks |-> toks]

\* ------------------------------------------------------------ TaggedEntry
\* TaggedEntry._PAT_TAGLINE: '@', a non-empty name, a non-empty dtype, a rank
\* of exactly one digit and a (possibly empty) comma separated list of numbers
PAT_TAGLINE_match(tagline) ==
    /\ tagline.at
    /\ tagline.name # ""
    /\ tagline.dtype # ""
    /\ Len(tagline.rank) = 1

\* an exception leaving TaggedEntry.__init__ or TaggedReader.__next__
Raised(kind, start, end, msg) ==
    [kind |-> kind, msg |-> msg, start |-> start, end |-> end,
     tagline |-> Data(<<>>), name |-> "", dtype |-> "", rank |-> 0,
     shape |-> <<>>, data |-> <<>>]
InvalidEntryError(start, end, msg) == Raised("InvalidEntryError", start, end, msg)

\* a constructed TaggedEntry; data is the reshaped array, kept as its
\* row-major elements together with shape
Entry(tagline, name, dtype, rank, shape, data) ==
    [kind |-> "entry", msg |-> "", start |-> 0, end |-> 0,
     tagline |-> tagline, name |-> name, dtype |-> dtype, rank |-> rank,
     shape |-> shape, data |-> data]

\* np.reshape(data, shape) succeeds iff the sizes agree (the size of () is 1)
ReshapeFails(data, shape) == Len(data) # Product(shape)

\* lines 251-262: conversion of the data, the checks and the reshape
TaggedEntry_data(tagline, name, dtype, rank, shape, strvalue) ==
    LET conv == CallConverter(dtype, strvalue) IN
    IF conv.kind = "ConversionError" THEN InvalidEntryError(0, 0, conv.msg)
    ELSE IF conv.kind # "ok" THEN Raised(conv.kind, 0, 0, conv.msg)
    ELSE IF shape # <<>> /\ Len(shape) # rank
    THEN InvalidEntryError(0, 0, "Incompatible rank and shape")
    ELSE IF shape # <<>> /\ Len(conv.vals) # Product(shape)
    THEN InvalidEntryError(0, 0, "Invalid nr. of values")
    ELSE IF shape = <<>> /\ rank # 0
    THEN InvalidEntryError(0, 0, "Incompatible rank and shape")
    ELSE IF ReshapeFails(conv.vals, shape)
    THEN Raised("ValueError", 0, 0, "cannot reshape array")
    ELSE Entry(tagline, name, dtype, rank, shape, conv.vals)

\* lines 243-247: the shape attribute; int("") raises for an empty shape field
ShapeFails(tagline, rank) == rank > 0 /\ tagline.shape = <<>>
ShapeOf(tagline, rank) == IF rank > 0 THEN tagline.shape ELSE <<>>

\* TaggedEntry.__init__(tagline, data)
TaggedEntry(tagline, strvalue) ==
    IF ~PAT_TAGLINE_match(tagline)
    THEN InvalidEntryError(0, 0, "Invalid tag format")
    ELSE LET rank == tagline.rank[1] IN
         IF ShapeFails(tagline, rank)
         THEN Raised("ValueError", 0, 0, "invalid literal for int()")
         ELSE IF tagline.dtype \notin CONVERTERS
         THEN InvalidEntryError(0, 0, "Invalid data dtype")
         ELSE TaggedEntry_data(tagline, tagline.name, tagline.dtype, rank,
                               ShapeOf(tagline, rank), strvalue)

\* ---------------------------------------------------------------- state
VARIABLES
    \* TaggedEntry(tagline, data): the arguments and what the call produced
    tagline, data, entry, epc,
    \* TaggedCollection: _names, _entries, the exception the last call raised
    names, entries, cerr,
    \* history of the collection: the last call with the state it started
    \* from, the entry last extended under each name, the number of entries
    \* extended, whether remove was ever called
    last, latest, serial, removed,
    \* TaggedReader: the source, the lines of the stream and the number of
    \* them readline() has returned, the file object, the attributes
    \* _lasttagline, _lasttagline_ind and _lastagline_ind, the position of
    \* the caller (before or after __init__)
    source, stream, pos, fp, lasttagline, lasttagline_ind, lastagline_ind, rpc,
    \* history of the reader: what the last __next__ produced, the entries
    \* returned so far, how many calls raised an error ("none", "one", "more")
    outcome, yielded, failures,
    \* the tagline and the data lines the last __next__ gave to TaggedEntry,
    \* with the number of lines consumed before the call; the number of
    \* __next__ calls made
    lastcall, ncalls,
    \* the last call of the collection: the entries given to extend, the
    \* pattern given to matching_taglines and the list it returned
    extended, pattern, matched,
    \* a converter call: the converter (its dtype and its nolist attribute),
    \* the argument and what the call produced
    conv, nolist, strvalue, cresult, kpc,
    \* SimpleCalculator: whether the files .runfinished and STDIN exist, the
    \* local variables fin, fout, ferr and process of run(), the position
    \* in run(), how the last run() ended, the number of run() calls
    finishfile, stdinfile, fin, fout, ferr, process, apc, runresult, nruns

evars == <<tagline, data, entry, epc>>
cvars == <<names, entries, cerr, last, latest, serial, removed, extended,
           pattern, matched>>
rvars == <<source, stream, pos, fp, lasttagline, lasttagline_ind,
           lastagline_ind, rpc, outcome, yielded, failures, lastcall, ncalls>>
kvars == <<conv, nolist, strvalue, cresult, kpc>>
avars == <<finishfile, stdinfile, fin, fout, ferr, process, apc, runresult,
           nruns>>
vars == <<evars, cvars, rvars, kvars, avars>>

\* nothing produced yet / the value None
NoneValue == Raised("None", 0, 0, "")
StopIteration == Raised("StopIteration", 0, 0, "")

\* the parts of the state a specification does not use
IdleEntry ==
    /\ tagline = Data(<<>>) /\ data = Str(<<>>) /\ entry = NoneValue
    /\ epc = "idle"
IdleCollection ==
    /\ names = <<>> /\ entries = <<>> /\ cerr = "none"
    /\ last = [op |-> "init", name |-> "", names |-> <<>>, entries |-> <<>>]
    /\ latest = <<>> /\ serial = 0 /\ removed = FALSE
    /\ extended = <<>> /\ pattern = <<>> /\ matched = <<>>
IdleReader ==
    /\ source = "" /\ stream = <<>> /\ pos = 0 /\ fp = "none"
    /\ lasttagline = <<>> /\ lasttagline_ind = 0 /\ lastagline_ind = <<>>
    /\ rpc = "idle" /\ outcome = NoneValue /\ yielded = <<>>
    /\ failures = "none"
    /\ lastcall = [tagline |-> Data(<<>>), lines |-> <<>>, pos |-> 0]
    /\ ncalls = 0
IdleConverter ==
    /\ conv = "" /\ nolist = FALSE /\ strvalue = Str(<<>>)
    /\ cresult = Raise("None", "") /\ kpc = "idle"
IdleCalculator ==
    /\ finishfile = FALSE /\ stdinfile = FALSE
    /\ fin = "None" /\ fout = "None" /\ ferr = "None" /\ process = "None"
    /\ apc = "off" /\ runresult = "none" /\ nruns = 0

\* ------------------------------------------- specification of TaggedEntry
Tokens == {"1", "2.5", "T", "x"}
Dtypes == CONVERTERS \cup {"foo"}
\* the rank field: empty, or one digit
RankFields == {<<>>} \cup {<<r>> : r \in 0..MaxRank}
Taglines ==
    {Tag("x", d, r, s) : d \in Dtypes, r \in RankFields,
                         s \in SeqsUpTo(0..MaxDim, MaxRank)}
\* n times the token t: as one string, as a list of one line, or as a list
\* of n lines of one token
DataOf(t, n, layout) ==
    CASE layout = "str"   -> Str([i \in 1..n |-> t])
      [] layout = "line"  -> StrList(<<[i \in 1..n |-> t]>>)
      [] layout = "lines" -> StrList([i \in 1..n |-> <<t>>])
DataArgs ==
    {DataOf(t, n, l) : t \in Tokens, n \in 0..MaxTokens,
                       l \in {"str", "line", "lines"}}

InitEntry ==
    /\ tagline \in Taglines
    /\ data \in DataArgs
    /\ entry = NoneValue
    /\ epc = "args"
    /\ IdleCollection /\ IdleReader /\ IdleConverter /\ IdleCalculator

\* entry = TaggedEntry(tagline, data)
NewTaggedEntry ==
    /\ epc = "args"
    /\ entry' = TaggedEntry(tagline, data)
    /\ epc' = "done"
    /\ UNCHANGED <<tagline, data, cvars, rvars, kvars, avars>>

NextEntry == NewTaggedEntry
SpecEntry == InitEntry /\ [][NextEntry]_vars

\* ------------------------------------------------------- TaggedCollection
Names == {"x", "y", "z"}

\* the dict d with d[key] = value
DictSet(d, key, value) ==
    [k \in DOMAIN d \cup {key} |-> IF k = key THEN value ELSE d[k]]
\* the dict d without key
DictDel(d, key) == [k \in DOMAIN d \ {key} |-> d[k]]
\* the list l without its item at (0-based) index ii
ListDel(l, ii) ==
    [i \in 1..(Len(l) - 1) |-> IF i <= ii THEN l[i] ELSE l[i + 1]]

\* an extend that puts an entry with a known name into the slot of the
\* entry it shadows
ExtendReplacing(c, e) ==
    IF e.name \in DOMAIN c.names /\ c.names[e.name] < Len(c.entries)
    THEN [names |-> c.names,
          entries |-> [c.entries EXCEPT ![c.names[e.name] + 1] = e]]
    ELSE [names |-> DictSet(c.names, e.name, Cardinality(DOMAIN c.names)),
          entries |-> Append(c.entries, e)]

\* lines 302-303, for one entry: the index is the size of _names
ExtendOne(c, e) ==
    [names |-> DictSet(c.names, e.name, Cardinality(DOMAIN c.names)),
     entries |-> Append(c.entries, e)]

\* TaggedCollection.extend(entries) on the collection c
RECURSIVE Extend(_, _)
Extend(c, es) ==
    IF es = <<>> THEN c ELSE Extend(ExtendOne(c, Head(es)), Tail(es))

\* TaggedCollection.get(name) on the collection c
Get(c, name) ==
    IF name \notin DOMAIN c.names THEN NoneValue
    ELSE IF c.names[name] >= Len(c.entries)
    THEN Raised("IndexError", 0, 0, "list index out of range")
    ELSE c.entries[c.names[name] + 1]

\* TaggedCollection.remove(name) on the collection c: the collection it
\* leaves and the exception it raises; the class has no attribute _taglines
Remove(c, name) ==
    IF name \notin DOMAIN c.names
    THEN [names |-> c.names, entries |-> c.entries, err |-> "none"]
    ELSE IF c.names[name] >= Len(c.entries)
    THEN [names |-> DictDel(c.names, name), entries |-> c.entries,
          err |-> "IndexError"]
    ELSE [names |-> DictDel(c.names, name),
          entries |-> ListDel(c.entries, c.names[name]),
          err |-> "AttributeError"]

\* the characters of a string of the model: a dtype is spelled out, any
\* other string used is one character long
Chars(str) ==
    CASE str = "integer" -> <<"i", "n", "t", "e", "g", "e", "r">>
      [] str = "real"    -> <<"r", "e", "a", "l">>
      [] str = "complex" -> <<"c", "o", "m", "p", "l", "e", "x">>
      [] str = "logical" -> <<"l", "o", "g", "i", "c", "a", "l">>
      [] str = "foo"     -> <<"f", "o", "o">>
      [] str = ""        -> <<>>
      [] OTHER           -> <<str>>
\* the decimal digits of a number
RECURSIVE Decimal(_)
Decimal(n) ==
    LET digit == <<"0", "1", "2", "3", "4", "5", "6", "7", "8", "9">> IN
    IF n < 10 THEN <<digit[n + 1]>>
    ELSE Decimal(n \div 10) \o <<digit[(n % 10) + 1]>>
\* the numbers of a shape, separated by commas
RECURSIVE ShapeText(_)
ShapeText(shape) ==
    IF shape = <<>> THEN <<>>
    ELSE IF Len(shape) = 1 THEN Decimal(shape[1])
    ELSE Decimal(shape[1]) \o <<",">> \o ShapeText(Tail(shape))
\* TaggedEntry.tagline: the text '@<name>:<dtype>:<rank>:<shape>' of a
\* tagline, as its characters
TagText(tag) ==
    <<"@">> \o Chars(tag.name) \o <<":">> \o Chars(tag.dtype)
        \o <<":">> \o Flatten([i \in 1..Len(tag.rank) |->
                                  Decimal(tag.rank[i])])
        \o <<":">> \o ShapeText(tag.shape)

\* pattern.match(text) for a compiled pattern made of characters, of '.'
\* (any character) and of '.*' (any characters): a match at offset 0
RECURSIVE re_match(_, _)
re_match(pat, text) ==
    IF pat = <<>> THEN TRUE
    ELSE IF Head(pat) = ".*"
    THEN \E k \in 0..Len(text) :
             re_match(Tail(pat), SubSeq(text, k + 1, Len(text)))
    ELSE /\ text # <<>>
         /\ Head(pat) \in {".", Head(text)}
         /\ re_match(Tail(pat), Tail(text))

\* the entries of es whose tagline matches, in the order of es
RECURSIVE MatchingEntries(_, _)
MatchingEntries(es, pat) ==
    IF es = <<>> THEN <<>>
    ELSE (IF re_match(pat, TagText(Head(es).tagline)) THEN <<Head(es)>>
          ELSE <<>>) \o MatchingEntries(Tail(es), pat)

\* a lookup through the index instead of the sequence: only the entries
\* that get() returns for their name
MatchingIndexed(c, pat) ==
    MatchingEntries(
        SelectSeq(c.entries,
                  LAMBDA e : e.name \in DOMAIN c.names
                             /\ c.names[e.name] < Len(c.entries)
                             /\ c.entries[c.names[e.name] + 1] = e), pat)

\* TaggedCollection.matching_taglines(pattern) on the collection c
matching_taglines(c, pat) == MatchingEntries(c.entries, pat)

\* TaggedCollectionIter: the items __next__ returns after ind, until it
\* raises StopIteration
RECURSIVE TaggedCollectionIter_next(_, _)
TaggedCollectionIter_next(c, ind) ==
    IF ind + 1 < Len(c.entries)
    THEN <<c.entries[ind + 2]>> \o TaggedCollectionIter_next(c, ind + 1)
    ELSE <<>>

\* list(c): __iter__ makes an iterator with ind = -1
TaggedCollection_iter(c) == TaggedCollectionIter_next(c, -1)

Coll == [names |-> names, entries |-> entries]
get(name) == Get(Coll, name)

\* the k-th entry ever extended, named n: a scalar integer of value k
NewEntry(n, k) ==
    Entry(Tag(n, "integer", <<0>>, <<>>), n, "integer", 0, <<>>,
          <<Value("int", k, 0)>>)

\* the entry last extended under each name
RECURSIVE Latest(_, _)
Latest(l, es) ==
    IF es = <<>> THEN l
    ELSE Latest(DictSet(l, Head(es).name, Head(es)), Tail(es))

InitCollection ==
    /\ IdleCollection /\ IdleEntry /\ IdleReader /\ IdleConverter
    /\ IdleCalculator

\* extend(es), es being up to two new entries
TaggedCollection_extend ==
    \E ns \in SeqsUpTo(Names, 2) :
        /\ serial + Len(ns) <= MaxExtended
        /\ LET es == [i \in 1..Len(ns) |-> NewEntry(ns[i], serial + i)]
               c == Extend(Coll, es)
           IN /\ names' = c.names
              /\ entries' = c.entries
              /\ latest' = Latest(latest, es)
              /\ extended' = es
        /\ serial' = serial + Len(ns)
        /\ cerr' = "none"
        /\ last' = [op |-> "extend", name |-> "", names |-> names,
                    entries |-> entries]
        /\ pattern' = <<>> /\ matched' = <<>>
        /\ UNCHANGED <<removed, evars, rvars, kvars, avars>>

\* remove(name)
TaggedCollection_remove ==
    \E name \in Names :
        /\ LET c == Remove(Coll, name)
           IN /\ names' = c.names
              /\ entries' = c.entries
              /\ cerr' = c.err
        /\ removed' = TRUE
        /\ last' = [op |-> "remove", name |-> name, names |-> names,
                    entries |-> entries]
        /\ extended' = <<>> /\ pattern' = <<>> /\ matched' = <<>>
        /\ UNCHANGED <<latest, serial, evars, rvars, kvars, avars>>

\* the patterns given to matching_taglines
Patterns ==
    {<<>>, <<"@", "x">>, <<"x">>, <<"@", ".", ":", "i">>, <<".*", "y", ":">>,
     <<"@", "y", ":", "r">>}

\* matching_taglines(pattern)
TaggedCollection_matching_taglines ==
    \E pat \in Patterns :
        /\ pattern' = pat
        /\ matched' = matching_taglines(Coll, pat)
        /\ cerr' = "none"
        /\ last' = [op |-> "matching", name |-> "", names |-> names,
                    entries |-> entries]
        /\ extended' = <<>>
        /\ UNCHANGED <<names, entries, latest, serial, removed, evars, rvars,
                       kvars, avars>>

NextCollection ==
    \/ TaggedCollection_extend
    \/ TaggedCollection_remove
    \/ TaggedCollection_matching_taglines
SpecCollection == InitCollection /\ [][NextCollection]_vars

\* ----------------------------------------------------------- TaggedReader
\* valsimp.io.zopen(fname, "r"): the file object opened for a path
zopen(fname) == IF fname = "out.tag.gz" THEN "gzip" ELSE "file"

\* TaggedReader._readnext_tagline with n lines of the stream s consumed:
\* the lines read before the next tagline, that tagline ("" at the end of
\* the stream) and the number of lines consumed afterwards
RECURSIVE readnext_tagline(_, _, _)
readnext_tagline(s, n, lines) ==
    IF n >= Len(s) THEN [lines |-> lines, tagline |-> <<>>, pos |-> n]
    ELSE IF s[n + 1].at
    THEN [lines |-> lines, tagline |-> <<s[n + 1]>>, pos |-> n + 1]
    ELSE readnext_tagline(s, n + 1, Append(lines, s[n + 1]))

\* the data lines as TaggedEntry gets them: a list of strings
DataLines(lines) == StrList([i \in 1..Len(lines) |-> lines[i].toks])

\* the lines of the streams: taglines of the four dtypes and of an unknown
\* one, and lines of data
StreamTags ==
    {Tag("a", "real", <<0>>, <<>>), Tag("b", "integer", <<1>>, <<2>>),
     Tag("c", "complex", <<0>>, <<>>), Tag("d", "logical", <<0>>, <<>>),
     Tag("e", "foo", <<0>>, <<>>)}
StreamData == {Data(<<"1">>), Data(<<"1", "1">>), Data(<<"T">>), Data(<<"x">>)}
Streams == SeqsUpTo(StreamTags \cup StreamData, MaxLines)

\* the source is an open stream of the caller or the path of a file
Sources == {"stream", "out.tag", "out.tag.gz"}

InitReader ==
    /\ source \in Sources
    /\ stream \in Streams
    /\ pos = 0
    /\ fp = IF source = "stream" THEN "caller" ELSE "none"
    /\ lasttagline = <<>> /\ lasttagline_ind = 0 /\ lastagline_ind = <<>>
    /\ rpc = "new"
    /\ outcome = NoneValue /\ yielded = <<>> /\ failures = "none"
    /\ lastcall = [tagline |-> Data(<<>>), lines |-> <<>>, pos |-> 0]
    /\ ncalls = 0
    /\ IdleEntry /\ IdleCollection /\ IdleConverter /\ IdleCalculator

\* TaggedReader.__init__(source)
TaggedReader_init ==
    /\ rpc = "new"
    /\ fp' = IF source = "stream" THEN fp ELSE zopen(source)
    /\ LET r == readnext_tagline(stream, pos, <<>>)
       IN /\ lasttagline' = r.tagline
          /\ lasttagline_ind' = Len(r.lines)
          /\ pos' = r.pos
    /\ rpc' = "ready"
    /\ UNCHANGED <<source, stream, lastagline_ind, outcome, yielded, failures,
                   lastcall, ncalls, evars, cvars, kvars, avars>>

\* one more failed call
Failed(f) == IF f = "none" THEN "one" ELSE "more"

\* TaggedReader.__next__(); the caller makes at most two calls more than
\* the stream has lines
TaggedReader_next ==
    /\ rpc = "ready"
    /\ ncalls < Len(stream) + 2
    /\ ncalls' = ncalls + 1
    /\ IF lasttagline = <<>>
       THEN /\ outcome' = StopIteration
            /\ UNCHANGED <<pos, lasttagline, lastagline_ind, yielded, failures,
                           lastcall>>
       ELSE LET r == readnext_tagline(stream, pos, <<>>)
                tagline_ind == lasttagline_ind + Len(r.lines)
                result == TaggedEntry(lasttagline[1], DataLines(r.lines))
            IN /\ pos' = r.pos
               /\ lastcall' = [tagline |-> lasttagline[1], lines |-> r.lines,
                               pos |-> pos]
               /\ IF result.kind = "entry"
                  THEN /\ lasttagline' = r.tagline
                       /\ lastagline_ind' = <<tagline_ind>>
                       /\ outcome' = result
                       /\ yielded' = Append(yielded, result)
                       /\ UNCHANGED failures
                  ELSE /\ outcome' =
                            IF result.kind = "InvalidEntryError"
                            THEN InvalidEntryError(lasttagline_ind + 1,
                                                   tagline_ind, result.msg)
                            ELSE result
                       /\ failures' = Failed(failures)
                       /\ UNCHANGED <<lasttagline, lastagline_ind, yielded>>
    /\ UNCHANGED <<source, stream, fp, lasttagline_ind, rpc, evars, cvars,
                   kvars, avars>>

NextReader == TaggedReader_init \/ TaggedReader_next
SpecReader == InitReader /\ [][NextReader]_vars

\* ------------------------------------------- specification of a converter
\* the argument: one string of up to MaxTokens tokens, or a list of up to
\* three lines of up to two tokens
ConvArgs ==
    {Str(t) : t \in SeqsUpTo(Tokens, MaxTokens)}
        \cup {StrList(l) : l \in SeqsUpTo(SeqsUpTo(Tokens, 2), 3)}

InitConverter ==
    /\ conv \in CONVERTERS
    /\ nolist \in BOOLEAN
    /\ strvalue \in ConvArgs
    /\ cresult = Raise("None", "")
    /\ kpc = "args"
    /\ IdleEntry /\ IdleCollection /\ IdleReader /\ IdleCalculator

\* cresult = converter(strvalue), converter being an IntConverter,
\* FloatConverter, ComplexConverter or LogicalConverter made with nolist
CallOfConverter ==
    /\ kpc = "args"
    /\ cresult' = IF conv = "complex"
                  THEN ComplexConverter_call(nolist, strvalue)
                  ELSE Converter_call(conv, nolist, strvalue)
    /\ kpc' = "done"
    /\ UNCHANGED <<conv, nolist, strvalue, evars, cvars, rvars, avars>>

NextConverter == CallOfConverter
SpecConverter == InitConverter /\ [][NextConverter]_vars

\* --------------------------------------------------------- SimpleCalculator
\* the number of run() calls followed
MaxRuns == 4

\* _setunfinished(): the finish file is removed when it exists
SetUnfinishedKeeps(f) == f
SimpleCalculator_setunfinished(f) == IF f THEN FALSE ELSE f

\* _setfinished(): open(self.finishfile, "w").close() creates the file
SimpleCalculator_setfinished(f) == TRUE

\* runfinished(): os.path.isfile(self.finishfile)
runfinished == finishfile

\* the working directory as run() may find it: with or without the finish
\* file of an earlier session, with or without a file STDIN
InitCalculator ==
    /\ finishfile \in BOOLEAN /\ stdinfile \in BOOLEAN
    /\ fin = "None" /\ fout = "None" /\ ferr = "None" /\ process = "None"
    /\ apc = "idle" /\ runresult = "none" /\ nruns = 0
    /\ IdleEntry /\ IdleCollection /\ IdleReader /\ IdleConverter

\* run() is entered and its first statement, self._setunfinished(), is done
SimpleCalculator_run ==
    /\ apc = "idle" /\ nruns < MaxRuns
    /\ finishfile' = SimpleCalculator_setunfinished(finishfile)
    /\ nruns' = nruns + 1
    /\ apc' = "open"
    /\ UNCHANGED <<stdinfile, fin, fout, ferr, process, runresult, evars,
                   cvars, rvars, kvars>>

\* an exception leaves run(): its local variables are gone
RunRaises(what) ==
    /\ runresult' = what
    /\ apc' = "idle"
    /\ fin' = "None" /\ fout' = "None" /\ ferr' = "None" /\ process' = "None"

\* STDIN is opened when it is a file, then STDOUT and STDERR are opened for
\* writing; open() raises OSError when the working directory refuses it
SimpleCalculator_run_open ==
    /\ apc = "open"
    /\ \/ /\ fin' = IF stdinfile THEN "open" ELSE "None"
          /\ fout' = "open" /\ ferr' = "open"
          /\ apc' = "Popen"
          /\ UNCHANGED <<process, runresult>>
       \/ RunRaises("OSError in open")
    /\ UNCHANGED <<finishfile, stdinfile, nruns, evars, cvars, rvars, kvars>>

\* sp.Popen starts the command, or raises OSError when it cannot be started
SimpleCalculator_run_Popen ==
    /\ apc = "Popen"
    /\ \/ /\ process' = "running"
          /\ apc' = "wait"
          /\ UNCHANGED <<fin, fout, ferr, runresult>>
       \/ RunRaises("OSError in Popen")
    /\ UNCHANGED <<finishfile, stdinfile, nruns, evars, cvars, rvars, kvars>>

\* the command ends, with return code 0 or another one
ProcessExits ==
    /\ process = "running"
    /\ process' \in {"exited 0", "exited 1"}
    /\ UNCHANGED <<finishfile, stdinfile, fin, fout, ferr, apc, runresult,
                   nruns, evars, cvars, rvars, kvars>>

\* process.wait() returns once the command has ended, whatever its return
\* code; self._setfinished() follows and run() returns
SimpleCalculator_run_wait ==
    /\ apc = "wait" /\ process \in {"exited 0", "exited 1"}
    /\ finishfile' = SimpleCalculator_setfinished(finishfile)
    /\ runresult' = "returned"
    /\ apc' = "idle"
    /\ fin' = "None" /\ fout' = "None" /\ ferr' = "None" /\ process' = "None"
    /\ UNCHANGED <<stdinfile, nruns, evars, cvars, rvars, kvars>>

\* between two runs the caller writes or deletes the file STDIN
PrepareStdin ==
    /\ apc = "idle" /\ nruns < MaxRuns
    /\ stdinfile' = ~stdinfile
    /\ UNCHANGED <<finishfile, fin, fout, ferr, process, apc, runresult,
                   nruns, evars, cvars, rvars, kvars>>

NextCalculator ==
    \/ SimpleCalculator_run
    \/ SimpleCalculator_run_open
    \/ SimpleCalculator_run_Popen
    \/ ProcessExits
    \/ SimpleCalculator_run_wait
    \/ PrepareStdin
SpecCalculator == InitCalculator /\ [][NextCalculator]_vars

\* ------------------------------------------------------ the tagged format
\* the line numbers (1-based) of the taglines of the stream s
HeaderLines(s) == {i \in 1..Len(s) : s[i].at}
\* the line number of the k-th tagline of s (0 if there is none)
NthHeaderLine(s, k) ==
    IF k \in 1..Cardinality(HeaderLines(s))
    THEN CHOOSE i \in HeaderLines(s) :
             Cardinality({j \in HeaderLines(s) : j <= i}) = k
    ELSE 0
\* the line number of the last line of the block whose tagline is line h:
\* the line before the next tagline, or the last line of the stream
BlockEnd(s, h) ==
    IF \E i \in HeaderLines(s) : i > h
    THEN (CHOOSE i \in HeaderLines(s) :
              i > h /\ \A j \in HeaderLines(s) : j > h => i <= j) - 1
    ELSE Len(s)
\* the tokens of the block whose tagline is line h
BlockTokens(s, h) ==
    Flatten([i \in 1..(BlockEnd(s, h) - h) |-> s[h + i].toks])

\* the tokens that are literals of a dtype
Literals(dtype) ==
    CASE dtype = "integer" -> DOMAIN IntLiteral
      [] dtype = "real"    -> DOMAIN FloatLiteral
      [] dtype = "complex" -> DOMAIN FloatLiteral
      [] dtype = "logical" -> {"T", "t", "F", "f"}
      [] OTHER             -> {}
\* tokens per value
Width(dtype) == IF dtype = "complex" THEN 2 ELSE 1

\* the format of a block: '@<name>:<dtype>:<rank>:<shape>' with one of the
\* four dtypes, a shape of rank positive numbers (none for rank 0), and as
\* many literals of the dtype as the shape asks for (one value for rank 0)
WellFormedBlock(tag, toks) ==
    /\ tag.at /\ tag.name # "" /\ Len(tag.rank) = 1
    /\ tag.dtype \in {"integer", "real", "complex", "logical"}
    /\ Len(tag.shape) = tag.rank[1]
    /\ \A i \in 1..Len(tag.shape) : tag.shape[i] > 0
    /\ \A i \in 1..Len(toks) : toks[i] \in Literals(tag.dtype)
    /\ Len(toks) = Width(tag.dtype) * Product(tag.shape)
WellFormedStream(s) ==
    \A h \in HeaderLines(s) : WellFormedBlock(s[h], BlockTokens(s, h))

\* ----------------------------------------------------------------- claims
\* C1: after any sequence of extend calls and no remove, get(n) returns,
\* for every name n extended at least once, the entry most recently
\* extended under n.
C1_GetReturnsLatest ==
    ~removed => \A n \in DOMAIN latest : get(n) = latest[n]

\* C2: over a stream of N taglines, each followed by a well-formed block,
\* the reader yields N entries, the k-th named as the k-th tagline, and
\* signals termination on the call after the N-th entry (on the first call
\* for N = 0); no call fails.
C2_YieldsEveryHeaderInOrder ==
    (rpc = "ready" /\ WellFormedStream(stream)) =>
        LET N == Cardinality(HeaderLines(stream)) IN
        /\ outcome.kind \in {"None", "entry", "StopIteration"}
        /\ Len(yielded) <= N
        /\ \A k \in 1..Len(yielded) :
               yielded[k].name = stream[NthHeaderLine(stream, k)].name
        /\ (lasttagline = <<>>) <=> (Len(yielded) = N)
        /\ outcome.kind = "StopIteration" => Len(yielded) = N

\* C3: when the first failing next() fails with an Invalid-entry error on
\* the k-th block, the k-1 earlier blocks having been returned, the error's
\* start line is the line number of the k-th tagline; and as long as no call
\* failed the running line counter is that of the buffered tagline.
C3_StartLineOfKthBlock ==
    /\ (rpc = "ready" /\ outcome.kind = "InvalidEntryError" /\ failures = "one")
           => outcome.start = NthHeaderLine(stream, Len(yielded) + 1)
    /\ (rpc = "ready" /\ failures = "none" /\ lasttagline # <<>>)
           => lasttagline_ind + 1 = NthHeaderLine(stream, Len(yielded) + 1)

\* C4: when next() fails with an Invalid-entry error on the first block of
\* the stream, the error carries [tagline's line, last line of the block]
\* and start <= end.
C4_LineRangeOfFirstBlock ==
    (rpc = "ready" /\ outcome.kind = "InvalidEntryError" /\ failures = "one"
        /\ yielded = <<>>) =>
        /\ outcome.start = NthHeaderLine(stream, 1)
        /\ outcome.end = BlockEnd(stream, NthHeaderLine(stream, 1))
        /\ outcome.start <= outcome.end

\* C5: every next() call ends with an entry, the termination signal or an
\* Invalid-entry error, and with no other error.
C5_OnlyInvalidEntryErrors ==
    rpc = "ready" =>
        outcome.kind \in {"None", "entry", "StopIteration", "InvalidEntryError"}

\* the index of the collection c maps every indexed name to an entry of
\* that name
IndexCorrect(c) ==
    \A b \in DOMAIN c.names : Get(c, b).kind = "entry" /\ Get(c, b).name = b

\* C6: after remove(a) on a collection whose index was correct, get(b)
\* returns, for every remaining indexed name b, the entry named b.
C6_IndexCorrectAfterRemove ==
    (last.op = "remove" /\ IndexCorrect(last)) => IndexCorrect(Coll)

\* C7: remove(name) of an indexed name raises no error, leaves get(name)
\* absent and deletes from the sequence the entry at the recorded position;
\* remove(name) of any other name changes nothing.
C7_RemoveCompletes ==
    last.op = "remove" =>
        /\ cerr = "none"
        /\ get(last.name) = NoneValue
        /\ IF last.name \in DOMAIN last.names
           THEN /\ DOMAIN names = DOMAIN last.names \ {last.name}
                /\ last.names[last.name] < Len(last.entries)
                /\ entries = ListDel(last.entries, last.names[last.name])
           ELSE names = last.names /\ entries = last.entries

\* C8: a stream the reader opened itself from a path is closed once the
\* reader is exhausted (at construction when the stream has no tagline).
C8_OwnStreamReleased ==
    (rpc = "ready" /\ source # "stream" /\ lasttagline = <<>>) => fp = "closed"

\* C9: no entry of rank 0 is constructed from a tagline whose shape field
\* is not empty.
C9_ScalarHasNoShape ==
    (epc = "done" /\ entry.kind = "entry" /\ entry.rank = 0)
        => tagline.shape = <<>>

\* C10: for a tagline of a known dtype and of rank r > 0 with data the
\* converter decodes, a shape list that has not exactly r elements makes the
\* construction fail with the Invalid-entry error 'Incompatible rank and
\* shape'.
C10_RankShapeMismatchFails ==
    (/\ epc = "done" /\ PAT_TAGLINE_match(tagline)
     /\ tagline.dtype \in CONVERTERS
     /\ CallConverter(tagline.dtype, data).kind = "ok"
     /\ tagline.rank[1] > 0
     /\ Len(tagline.shape) # tagline.rank[1])
        => /\ entry.kind = "InvalidEntryError"
           /\ entry.msg = "Incompatible rank and shape"

\* C11: for a tagline of a known dtype whose shape list has rank elements,
\* with data the converter decodes, a number of decoded values other than
\* the product of the shape (other than 1 for rank 0) makes the construction
\* fail with the Invalid-entry error 'Invalid nr. of values'.
C11_ValueCountMismatchFails ==
    (/\ epc = "done" /\ PAT_TAGLINE_match(tagline)
     /\ tagline.dtype \in CONVERTERS
     /\ Len(tagline.shape) = tagline.rank[1]
     /\ CallConverter(tagline.dtype, data).kind = "ok"
     /\ Len(CallConverter(tagline.dtype, data).vals) # Product(tagline.shape))
        => /\ entry.kind = "InvalidEntryError"
           /\ entry.msg = "Invalid nr. of values"

\* C12: complex decoding of a block given as a list of lines with 2n tokens
\* in total yields n values, the j-th built from the tokens 2j-1 (real part)
\* and 2j (imaginary part) of the concatenated lines; an odd number of tokens
\* fails with a conversion error.
C12_ComplexPairsAcrossLines ==
    (kpc = "done" /\ conv = "complex" /\ ~nolist /\ strvalue.islist) =>
        LET toks == Flatten(strvalue.val) IN
        IF Len(toks) % 2 = 1 THEN cresult.kind = "ConversionError"
        ELSE (\A i \in 1..Len(toks) : toks[i] \in DOMAIN FloatLiteral) =>
                /\ cresult.kind = "ok"
                /\ Len(cresult.vals) = Len(toks) \div 2
                /\ \A j \in 1..(Len(toks) \div 2) :
                       cresult.vals[j] =
                           Value("complex", FloatLiteral[toks[2*j - 1]],
                                            FloatLiteral[toks[2*j]])

\* the number of tokens of the argument of the converter call
TokenCount == Len(Split(strvalue))
\* the number of tokens that make one value
OneValue == IF conv = "complex" THEN 2 ELSE 1

\* C13: a converter in single-value mode returns a bare value only for
\* exactly one value (complex: two tokens) and fails with a conversion error
\* for every other number of tokens, zero included.  (The complex converter
\* is given a string here: it takes no list, see C12.)
C13_SingleValueOrConversionError ==
    (kpc = "done" /\ nolist /\ ~(conv = "complex" /\ strvalue.islist)) =>
        /\ cresult.kind = "ok" => (cresult.single /\ TokenCount = OneValue)
        /\ TokenCount # OneValue => cresult.kind = "ConversionError"

\* C14: every constructed entry of rank > 0 has only positive numbers in
\* its shape.
C14_PositiveShape ==
    (epc = "done" /\ entry.kind = "entry" /\ entry.rank > 0)
        => \A i \in 1..Len(entry.shape) : entry.shape[i] > 0

\* a pattern without '.' and '.*'
IsLiteral(pat) == \A i \in 1..Len(pat) : pat[i] \notin {".", ".*"}
\* text starts with the characters pat
StartsWith(text, pat) ==
    Len(pat) <= Len(text) /\ SubSeq(text, 1, Len(pat)) = pat

RunInProgress == apc \in {"open", "Popen", "wait"}
C16_RunFinishedTracksRun ==
    /\ RunInProgress => ~runfinished
    /\ (apc = "idle" /\ runresult = "returned") => runfinished
    /\ (apc = "idle" /\ runresult \in {"OSError in open", "OSError in Popen"})
           => ~runfinished
\* a second run whose command is still running, after a run that returned
\* and left the finish file
C16_Witness ==
    /\ apc = "wait" /\ process = "running"
    /\ nruns >= 2 /\ runresult = "returned"
    /\ ~runfinished

\* C17: every __next__ call that constructs an entry, also one made after
\* a call that failed, gives TaggedEntry one header line of the stream and
\* exactly the lines that follow this header up to the next header or the
\* end of the stream.
ConstructionAttempted == outcome.kind \notin {"None", "StopIteration"}
C17_HeaderWithItsOwnBlock ==
    (rpc = "ready" /\ ConstructionAttempted) =>
        /\ lastcall.pos \in HeaderLines(stream)
        /\ lastcall.tagline = stream[lastcall.pos]
        /\ lastcall.lines =
               SubSeq(stream, lastcall.pos + 1, BlockEnd(stream, lastcall.pos))

\* C18: a caller that keeps calling __next__ gets StopIteration after at
\* most one call more than the stream has header lines, whatever the blocks
\* hold, and from then on every call gives StopIteration again.
CallsToExhaust == Cardinality(HeaderLines(stream)) + 1
C18_ExhaustedWithinHeadersPlusOne ==
    (rpc = "ready" /\ ncalls >= CallsToExhaust) =>
        outcome.kind = "StopIteration"

\* C19: extend(es) leaves the sequence it found in place and appends es in
\* order, also when a name of es is already in the collection; as long as
\* remove was never called, iterating over the collection gives every entry
\* ever extended, in the order of insertion.
C19_ExtendOnlyAppends ==
    /\ last.op = "extend" => entries = last.entries \o extended
    /\ ~removed =>
           /\ Len(TaggedCollection_iter(Coll)) = serial
           /\ \A k \in 1..serial :
                  TaggedCollection_iter(Coll)[k].data = <<Value("int", k, 0)>>
\* extend of two entries, one of them under a name the collection holds
C19_Witness ==
    /\ last.op = "extend" /\ ~removed
    /\ Len(extended) = 2
    /\ \E i \in 1..2 : extended[i].name \in DOMAIN last.names
    /\ Len(entries) > Cardinality(DOMAIN names)

====
